---- MODULE Spec2Model ----
(***************************************************************************)
(* Model of rustls' certificate-trust verification layer (src/verify.rs).  *)
(*                                                                         *)
(* The layer is stateless: every public function is a self-contained call. *)
(* The state of the model is the record of the last call made into the     *)
(* layer: which operation, with which inputs, what it returned, and the    *)
(* ordered trace of calls it made to its external collaborators (the time  *)
(* source, the webpki path-validation engine, the signature engine and the *)
(* SCT engine).  What a collaborator answers is not decided by this layer: *)
(* it is an input of the call, drawn from every answer the collaborator's  *)
(* interface allows.                                                       *)
(***************************************************************************)
EXTENDS Integers, Sequences, FiniteSets

VARIABLES op, args, result, calls

vars == <<op, args, result, calls>>

(* ----------------------------- results -------------------------------- *)

\* Result<T, TLSError>: Ok(token), Ok(()), Err(kind(detail)); a plain value
\* returned by a policy query; a panic (unimplemented!()).
Ok(kind) == [tag |-> "Ok", kind |-> kind, detail |-> <<>>]
Err(kind, detail) == [tag |-> "Err", kind |-> kind, detail |-> detail]
Val(v) == [tag |-> "Val", kind |-> v, detail |-> <<>>]
Panic == [tag |-> "Panic", kind |-> "unimplemented", detail |-> <<>>]
NoResult == [tag |-> "None", kind |-> "none", detail |-> <<>>]

\* One call to an external collaborator: what was asked, what it answered.
Call(fn, in, out) == [fn |-> fn, in |-> in, out |-> out]

\* The outcome of running a function body: its result and the collaborator
\* calls it made, in order.
Outcome(res, cs) == [res |-> res, calls |-> cs]

\* The four marker types.
TokenKinds ==
    {"HandshakeSignatureValid", "FinishedMessageVerified",
     "ServerCertVerified", "ClientCertVerified"}

\* `assertion()` of a marker type: the value it builds.
assertion(kind) == Ok(kind)

\* The supported webpki signature algorithms handed to path validation.
SUPPORTED_SIG_ALGS ==
    <<"ECDSA_P256_SHA256", "ECDSA_P256_SHA384", "ECDSA_P384_SHA256",
      "ECDSA_P384_SHA384", "RSA_PSS_2048_8192_SHA256_LEGACY_KEY",
      "RSA_PSS_2048_8192_SHA384_LEGACY_KEY",
      "RSA_PSS_2048_8192_SHA512_LEGACY_KEY", "RSA_PKCS1_2048_8192_SHA256",
      "RSA_PKCS1_2048_8192_SHA384", "RSA_PKCS1_2048_8192_SHA512",
      "RSA_PKCS1_3072_8192_SHA384">>

(* ------------------------- inputs of the calls ------------------------ *)

\* Presented certificate sequences (DER blobs named by a string).
PresentedChains == {<<>>, <<"ee">>, <<"ee", "ca">>, <<"ca", "ee">>}

\* Trust-anchor stores.
RootStores == {<<>>, <<"root1">>}

DnsNames == {"example.com"}
SniHints == {"none", "example.com"}
OcspResponses == {<<>>, <<1>>}

\* Answers of the collaborators.
OkAnswer == "Ok"
ParseAnswers == {OkAnswer, "BadDER"}
TimeAnswers == {OkAnswer, "FailedToGetCurrentTime"}
ChainAnswers == {OkAnswer, "UnknownIssuer"}
NameAnswers == {OkAnswer, "CertNotValidForName"}

(* --------------------------- chain preparation ------------------------ *)

\* prepare() without its Empty-chain check: an empty sequence reaches the
\* parser.
prepare_no_empty_check(roots, presented_certs, parse) ==
    LET first == IF Len(presented_certs) = 0 THEN <<>>
                 ELSE <<presented_certs[1]>>
        answer == IF Len(presented_certs) = 0 THEN "BadDER" ELSE parse
        from == Call("EndEntityCert::from", first, answer)
    IN  IF answer # OkAnswer
        THEN Outcome(Err("WebPKIError", <<answer>>), <<from>>)
        ELSE Outcome([tag |-> "Ok", kind |-> "CertChainAndRoots",
                      detail |-> <<presented_certs[1],
                                   Tail(presented_certs), roots>>],
                     <<from>>)

\* prepare(): Empty-chain check, parse of the first certificate as the
\* end-entity certificate, the rest as intermediates, every root converted.
prepare(roots, presented_certs, parse) ==
    IF Len(presented_certs) = 0
    THEN Outcome(Err("NoCertificatesPresented", <<>>), <<>>)
    ELSE LET from == Call("EndEntityCert::from", <<presented_certs[1]>>, parse)
         IN  IF parse # OkAnswer
             THEN Outcome(Err("WebPKIError", <<parse>>), <<from>>)
             ELSE Outcome([tag |-> "Ok", kind |-> "CertChainAndRoots",
                           detail |-> <<presented_certs[1],
                                        Tail(presented_certs), roots>>],
                          <<from>>)

(* ----------------------------- server verifier ------------------------ *)

\* verify_server_cert with the result of the name check dropped.
verify_server_cert_unnamed(roots, presented_certs, dns_name, ocsp_response, eng) ==
    LET p == prepare(roots, presented_certs, eng.parse)
    IN  IF p.res.tag # "Ok" THEN p
        ELSE
        LET cert == p.res.detail[1]
            chain == p.res.detail[2]
            trustroots == p.res.detail[3]
            t == Call("time", <<>>, eng.time)
            v == Call("verify_is_valid_tls_server_cert",
                      <<cert, SUPPORTED_SIG_ALGS, trustroots, chain>>,
                      eng.chain)
            n == Call("verify_is_valid_for_dns_name", <<cert, dns_name>>,
                      eng.name)
        IN  IF eng.time # OkAnswer
            THEN Outcome(Err(eng.time, <<>>), p.calls \o <<t>>)
            ELSE IF eng.chain # OkAnswer
            THEN Outcome(Err("WebPKIError", <<eng.chain>>),
                         p.calls \o <<t, v>>)
            ELSE Outcome(assertion("ServerCertVerified"),
                         p.calls \o <<t, v, n>>)

\* WebPKIVerifier::verify_server_cert.  `eng` holds what each collaborator
\* answers if it is asked.
verify_server_cert(roots, presented_certs, dns_name, ocsp_response, eng) ==
    LET p == prepare(roots, presented_certs, eng.parse)
    IN  IF p.res.tag # "Ok" THEN p
        ELSE
        LET cert == p.res.detail[1]
            chain == p.res.detail[2]
            trustroots == p.res.detail[3]
            t == Call("time", <<>>, eng.time)
        IN  IF eng.time # OkAnswer
            THEN Outcome(Err(eng.time, <<>>), p.calls \o <<t>>)
            ELSE
            LET v == Call("verify_is_valid_tls_server_cert",
                          <<cert, SUPPORTED_SIG_ALGS, trustroots, chain>>,
                          eng.chain)
            IN  IF eng.chain # OkAnswer
                THEN Outcome(Err("WebPKIError", <<eng.chain>>),
                             p.calls \o <<t, v>>)
                ELSE
                LET n == Call("verify_is_valid_for_dns_name",
                              <<cert, dns_name>>, eng.name)
                IN  IF eng.name # OkAnswer
                    THEN Outcome(Err("WebPKIError", <<eng.name>>),
                                 p.calls \o <<t, v, n>>)
                    ELSE Outcome(assertion("ServerCertVerified"),
                                 p.calls \o <<t, v, n>>)

(* ----------------------------- client verifier ------------------------ *)

Policies ==
    {"AllowAnyAuthenticatedClient", "AllowAnyAnonymousOrAuthenticatedClient",
     "NoClientAuth"}

\* verify_client_cert with the result of chain validation dropped.
verify_client_cert_chain_unchecked(roots, presented_certs, eng) ==
    LET p == prepare(roots, presented_certs, eng.parse)
    IN  IF p.res.tag # "Ok" THEN p
        ELSE
        LET t == Call("time", <<>>, eng.time)
            v == Call("verify_is_valid_tls_client_cert",
                      <<p.res.detail[1], SUPPORTED_SIG_ALGS, p.res.detail[3],
                        p.res.detail[2]>>,
                      eng.chain)
        IN  IF eng.time # OkAnswer
            THEN Outcome(Err("FailedToGetCurrentTime", <<>>), p.calls \o <<t>>)
            ELSE Outcome(assertion("ClientCertVerified"), p.calls \o <<t, v>>)

\* AllowAnyAuthenticatedClient::verify_client_cert.
AllowAnyAuthenticatedClient_verify_client_cert(roots, presented_certs, eng) ==
    LET p == prepare(roots, presented_certs, eng.parse)
    IN  IF p.res.tag # "Ok" THEN p
        ELSE
        LET cert == p.res.detail[1]
            chain == p.res.detail[2]
            trustroots == p.res.detail[3]
            t == Call("time", <<>>, eng.time)
        IN  IF eng.time # OkAnswer
            THEN Outcome(Err("FailedToGetCurrentTime", <<>>), p.calls \o <<t>>)
            ELSE
            LET v == Call("verify_is_valid_tls_client_cert",
                          <<cert, SUPPORTED_SIG_ALGS, trustroots, chain>>,
                          eng.chain)
            IN  IF eng.chain # OkAnswer
                THEN Outcome(Err("WebPKIError", <<eng.chain>>),
                             p.calls \o <<t, v>>)
                ELSE Outcome(assertion("ClientCertVerified"),
                             p.calls \o <<t, v>>)

\* verify_client_cert of each built-in policy.
verify_client_cert(policy, roots, presented_certs, eng) ==
    CASE policy = "AllowAnyAuthenticatedClient" ->
           AllowAnyAuthenticatedClient_verify_client_cert(
               roots, presented_certs, eng)
      [] policy = "AllowAnyAnonymousOrAuthenticatedClient" ->
           \* self.inner.verify_client_cert(presented_certs, sni)
           AllowAnyAuthenticatedClient_verify_client_cert(
               roots, presented_certs, eng)
      [] policy = "NoClientAuth" -> Outcome(Panic, <<>>)

\* offer_client_auth of each built-in policy.
offer_client_auth(policy) ==
    CASE policy = "AllowAnyAuthenticatedClient" -> TRUE
      [] policy = "AllowAnyAnonymousOrAuthenticatedClient" ->
           \* self.inner.offer_client_auth()
           TRUE
      [] policy = "NoClientAuth" -> FALSE

\* The trait's default body: Some(self.offer_client_auth()).
default_client_auth_mandatory(policy) ==
    IF offer_client_auth(policy) THEN "Some(true)" ELSE "Some(false)"

\* client_auth_mandatory left to the trait's default body in every policy.
client_auth_mandatory_defaulted(policy, sni) ==
    default_client_auth_mandatory(policy)

\* client_auth_mandatory of each built-in policy; the hint is ignored.
client_auth_mandatory(policy, sni) ==
    CASE policy = "AllowAnyAuthenticatedClient" -> "Some(true)"
      [] policy = "AllowAnyAnonymousOrAuthenticatedClient" -> "Some(false)"
      [] policy = "NoClientAuth" -> default_client_auth_mandatory(policy)

\* client_auth_root_subjects of each built-in policy.
client_auth_root_subjects(policy, roots, sni) ==
    CASE policy = "AllowAnyAuthenticatedClient" ->
           [tag |-> "Val", kind |-> "Some(subjects)", detail |-> roots]
      [] policy = "AllowAnyAnonymousOrAuthenticatedClient" ->
           [tag |-> "Val", kind |-> "Some(subjects)", detail |-> roots]
      [] policy = "NoClientAuth" -> Panic

BoolVal(b) == Val(IF b THEN "true" ELSE "false")

(* ------------------------------ scheme gates -------------------------- *)

\* crate::msgs::enums::SignatureScheme: the named variants and Unknown(u16),
\* of which one value stands for all.
SignatureScheme ==
    {"RSA_PKCS1_SHA1", "ECDSA_SHA1_Legacy", "RSA_PKCS1_SHA256",
     "ECDSA_NISTP256_SHA256", "RSA_PKCS1_SHA384", "ECDSA_NISTP384_SHA384",
     "RSA_PKCS1_SHA512", "ECDSA_NISTP521_SHA512", "RSA_PSS_SHA256",
     "RSA_PSS_SHA384", "RSA_PSS_SHA512", "ED25519", "ED448",
     "Unknown(0x0000)"}

\* The families of the enumeration, by name.
RsaPkcs1Schemes ==
    {"RSA_PKCS1_SHA1", "RSA_PKCS1_SHA256", "RSA_PKCS1_SHA384",
     "RSA_PKCS1_SHA512"}
EcdsaSchemes ==
    {"ECDSA_SHA1_Legacy", "ECDSA_NISTP256_SHA256", "ECDSA_NISTP384_SHA384",
     "ECDSA_NISTP521_SHA512"}
RsaPssSchemes == {"RSA_PSS_SHA256", "RSA_PSS_SHA384", "RSA_PSS_SHA512"}

\* convert_scheme with the SHA-1 RSA-PKCS1 scheme let through.
convert_scheme_with_sha1(scheme) ==
    IF scheme \in {"ECDSA_NISTP256_SHA256", "ECDSA_NISTP384_SHA384",
                   "RSA_PKCS1_SHA1", "RSA_PKCS1_SHA256", "RSA_PKCS1_SHA384",
                   "RSA_PKCS1_SHA512", "RSA_PSS_SHA256", "RSA_PSS_SHA384",
                   "RSA_PSS_SHA512"}
    THEN Ok("Unit")
    ELSE Err("PeerMisbehavedError",
             <<"received unadvertised sig scheme ", scheme>>)

\* convert_scheme: the TLS 1.2 gate.
convert_scheme(scheme) ==
    IF scheme \in {"ECDSA_NISTP256_SHA256", "ECDSA_NISTP384_SHA384",
                   "RSA_PKCS1_SHA256", "RSA_PKCS1_SHA384", "RSA_PKCS1_SHA512",
                   "RSA_PSS_SHA256", "RSA_PSS_SHA384", "RSA_PSS_SHA512"}
    THEN Ok("Unit")
    ELSE Err("PeerMisbehavedError",
             <<"received unadvertised sig scheme ", scheme>>)

\* convert_alg_tls13: the TLS 1.3 gate.
convert_alg_tls13(scheme) ==
    IF scheme \in {"ECDSA_NISTP256_SHA256", "ECDSA_NISTP384_SHA384",
                   "RSA_PSS_SHA256", "RSA_PSS_SHA384", "RSA_PSS_SHA512"}
    THEN Ok("Unit")
    ELSE Err("PeerMisbehavedError",
             <<"received unsupported sig scheme ", scheme>>)

\* supported_verify_schemes: the schemes this side advertises.
supported_verify_schemes ==
    <<"ECDSA_NISTP384_SHA384", "ECDSA_NISTP256_SHA256", "RSA_PSS_SHA512",
      "RSA_PSS_SHA384", "RSA_PSS_SHA256", "RSA_PKCS1_SHA512",
      "RSA_PKCS1_SHA384", "RSA_PKCS1_SHA256">>

(* -------------------------- signature verification -------------------- *)

\* Longest context string drawn.
MaxLen == 1

PrefixLen == 64
PrefixByte == 32

Bytes == {0, 32}
ByteStrings == UNION {[1..n -> Bytes] : n \in 0..MaxLen}
TranscriptHashes == {<<>>, <<0>>, <<32, 0>>}
Messages == {<<>>, <<5>>}
Signatures == {<<1>>, <<2, 3>>}
SigAnswers == {OkAnswer, "InvalidSignatureForPublicKey"}

\* A DigitallySignedStruct.
DigitallySignedStructs == [scheme : SignatureScheme, sig : Signatures]

\* verify_signed_struct.
verify_signed_struct(message, cert, dss, answer) ==
    LET gate == convert_scheme(dss.scheme)
    IN  IF gate.tag # "Ok" THEN Outcome(gate, <<>>)
        ELSE
        LET c == Call("verify_certificate_signature",
                      [sig |-> dss.sig, msg |-> message, cert |-> cert,
                       scheme |-> dss.scheme, tls13 |-> FALSE], answer)
        IN  IF answer # OkAnswer
            THEN Outcome(Err("WebPKIError", <<answer>>), <<c>>)
            ELSE Outcome(assertion("HandshakeSignatureValid"), <<c>>)

\* The message with the transcript hash ahead of the context string.
tls13_message_hash_first(handshake_hash, context_string_with_0) ==
    ([i \in 1..PrefixLen |-> PrefixByte] \o handshake_hash)
        \o context_string_with_0

\* msg.resize(64, 0x20); extend_from_slice(context); extend_from_slice(hash).
tls13_message(handshake_hash, context_string_with_0) ==
    ([i \in 1..PrefixLen |-> PrefixByte] \o context_string_with_0)
        \o handshake_hash

\* verify_tls13 behind the TLS 1.2 gate.
verify_tls13_gate12(cert, dss, handshake_hash, context_string_with_0, answer) ==
    LET gate == convert_scheme(dss.scheme)
    IN  IF gate.tag # "Ok" THEN Outcome(gate, <<>>)
        ELSE
        LET msg == tls13_message(handshake_hash, context_string_with_0)
            c == Call("verify_certificate_signature",
                      [sig |-> dss.sig, msg |-> msg, cert |-> cert,
                       scheme |-> dss.scheme, tls13 |-> TRUE], answer)
        IN  IF answer # OkAnswer
            THEN Outcome(Err("WebPKIError", <<answer>>), <<c>>)
            ELSE Outcome(assertion("HandshakeSignatureValid"), <<c>>)

\* verify_tls13.
verify_tls13(cert, dss, handshake_hash, context_string_with_0, answer) ==
    LET gate == convert_alg_tls13(dss.scheme)
    IN  IF gate.tag # "Ok" THEN Outcome(gate, <<>>)
        ELSE
        LET msg == tls13_message(handshake_hash, context_string_with_0)
            c == Call("verify_certificate_signature",
                      [sig |-> dss.sig, msg |-> msg, cert |-> cert,
                       scheme |-> dss.scheme, tls13 |-> TRUE], answer)
        IN  IF answer # OkAnswer
            THEN Outcome(Err("WebPKIError", <<answer>>), <<c>>)
            ELSE Outcome(assertion("HandshakeSignatureValid"), <<c>>)

(* ----------------------------- SCT verification ----------------------- *)

\* Longest SCT list drawn.
MaxScts == 3

\* Readings of the system clock: an instant before the epoch, an ordinary
\* instant, and an instant whose seconds since the epoch, times 1000, do not
\* fit u64.
SystemTimes == {"before_epoch", "ordinary", "secs_above_u64_max_div_1000"}

\* secs.checked_mul(1000): <<>> for None, <<millis>> for Some(millis).
checked_mul_1000(secs) ==
    IF secs = "secs_above_u64_max_div_1000" THEN <<>> ELSE <<"now_millis">>

\* unix_time_millis: duration_since(UNIX_EPOCH), as_secs, checked_mul(1000).
unix_time_millis(now) ==
    IF now = "before_epoch" THEN Err("FailedToGetCurrentTime", <<>>)
    ELSE IF checked_mul_1000(now) = <<>>
    THEN Err("FailedToGetCurrentTime", <<>>)
    ELSE [tag |-> "Ok", kind |-> "u64", detail |-> checked_mul_1000(now)]

LogSets == {<<>>, <<"log1">>, <<"log1", "log2">>}

\* sct::Error values the engine can answer with, and their classification.
NonFatalSctErrors == {"UnknownLog", "UnsupportedSCTVersion"}
FatalSctErrors == {"MalformedSCT", "InvalidSignature"}
should_be_fatal(e) == e \in FatalSctErrors

\* What sct::verify_sct can answer for one record against `logs`: the index
\* of one of the logs, or an error.
SctOk(index) == [ok |-> TRUE, index |-> index, err |-> "none"]
SctErr(e) == [ok |-> FALSE, index |-> 0 - 1, err |-> e]
SctAnswers(logs) ==
    {SctOk(i - 1) : i \in 1..Len(logs)}
        \cup {SctErr(e) : e \in NonFatalSctErrors \cup FatalSctErrors}

\* The state of verify_scts' loop.
SctLoop(valid_scts, last_sct_error, cs, ret) ==
    [valid_scts |-> valid_scts, last_sct_error |-> last_sct_error,
     calls |-> cs, ret |-> ret]

\* The loop with a fatal failure recorded like a non-fatal one.
RECURSIVE sct_loop_fatal_recorded(_, _, _, _, _, _)
sct_loop_fatal_recorded(i, st, cert, now, logs, answers) ==
    IF i > Len(answers) THEN st
    ELSE
    LET a == answers[i]
        cs == Append(st.calls, Call("sct::verify_sct", <<cert, i, now, logs>>, a))
    IN  IF a.ok
        THEN sct_loop_fatal_recorded(
                 i + 1,
                 SctLoop(st.valid_scts + 1, st.last_sct_error, cs, st.ret),
                 cert, now, logs, answers)
        ELSE sct_loop_fatal_recorded(
                 i + 1, SctLoop(st.valid_scts, <<a.err>>, cs, st.ret),
                 cert, now, logs, answers)

\* for sct in scts { match sct::verify_sct(...) { ... } } from record i on.
RECURSIVE sct_loop(_, _, _, _, _, _)
sct_loop(i, st, cert, now, logs, answers) ==
    IF i > Len(answers) THEN st
    ELSE
    LET a == answers[i]
        cs == Append(st.calls, Call("sct::verify_sct", <<cert, i, now, logs>>, a))
    IN  IF a.ok
        THEN sct_loop(i + 1,
                      SctLoop(st.valid_scts + 1, st.last_sct_error, cs, st.ret),
                      cert, now, logs, answers)
        ELSE IF should_be_fatal(a.err)
        THEN SctLoop(st.valid_scts, st.last_sct_error, cs,
                     Err("InvalidSCT", <<a.err>>))
        ELSE sct_loop(i + 1, SctLoop(st.valid_scts, <<a.err>>, cs, st.ret),
                      cert, now, logs, answers)

\* verify_scts with the final check not asking whether any log was supplied.
verify_scts_logs_unchecked(cert, answers, logs, clock) ==
    LET now == unix_time_millis(clock)
    IN  IF now.tag # "Ok" THEN Outcome(now, <<>>)
        ELSE
        LET st == sct_loop(1, SctLoop(0, <<>>, <<>>, NoResult), cert,
                           now.detail[1], logs, answers)
        IN  IF st.ret.tag = "Err" THEN Outcome(st.ret, st.calls)
            ELSE IF Len(answers) # 0 /\ st.valid_scts = 0
            THEN IF st.last_sct_error = <<>>
                 THEN Outcome(Panic, st.calls)
                 ELSE Outcome(Err("InvalidSCT", st.last_sct_error), st.calls)
            ELSE Outcome(Ok("Unit"), st.calls)

\* verify_scts with the final check asking for every record to be valid.
verify_scts_all_required(cert, answers, logs, clock) ==
    LET now == unix_time_millis(clock)
    IN  IF now.tag # "Ok" THEN Outcome(now, <<>>)
        ELSE
        LET st == sct_loop(1, SctLoop(0, <<>>, <<>>, NoResult), cert,
                           now.detail[1], logs, answers)
        IN  IF st.ret.tag = "Err" THEN Outcome(st.ret, st.calls)
            ELSE IF Len(logs) # 0 /\ Len(answers) # 0 /\ st.valid_scts < Len(answers)
            THEN IF st.last_sct_error = <<>>
                 THEN Outcome(Panic, st.calls)
                 ELSE Outcome(Err("InvalidSCT", st.last_sct_error), st.calls)
            ELSE Outcome(Ok("Unit"), st.calls)

\* verify_scts.  `answers[i]` is what the engine answers for record i of the
\* list if it is asked; last_sct_error is <<>> for None and <<e>> for Some(e).
verify_scts(cert, answers, logs, clock) ==
    LET now == unix_time_millis(clock)
    IN  IF now.tag # "Ok" THEN Outcome(now, <<>>)
        ELSE
        LET st == sct_loop(1, SctLoop(0, <<>>, <<>>, NoResult), cert,
                           now.detail[1], logs, answers)
        IN  IF st.ret.tag = "Err" THEN Outcome(st.ret, st.calls)
            ELSE IF Len(logs) # 0 /\ Len(answers) # 0 /\ st.valid_scts = 0
            THEN IF st.last_sct_error = <<>>
                 THEN Outcome(Panic, st.calls)
                 ELSE Outcome(Err("InvalidSCT", st.last_sct_error), st.calls)
            ELSE Outcome(Ok("Unit"), st.calls)

SctAnswerLists(logs) ==
    UNION {[1..n -> SctAnswers(logs)] : n \in 0..MaxScts}

(* ------------------------------- the calls ---------------------------- *)

Certs == {"ee"}

ServerEngines ==
    [parse : ParseAnswers, time : TimeAnswers, chain : ChainAnswers,
     name : NameAnswers]
ClientEngines ==
    [parse : ParseAnswers, time : TimeAnswers, chain : ChainAnswers]

Init ==
    /\ op = "none"
    /\ args = <<>>
    /\ result = NoResult
    /\ calls = <<>>

VerifyServerCert ==
    \E roots \in RootStores, certs \in PresentedChains, dns \in DnsNames,
       ocsp \in OcspResponses, eng \in ServerEngines :
        LET out == verify_server_cert(roots, certs, dns, ocsp, eng)
        IN  /\ op' = "verify_server_cert"
            /\ args' = [roots |-> roots, presented_certs |-> certs,
                        dns_name |-> dns, ocsp_response |-> ocsp]
            /\ result' = out.res
            /\ calls' = out.calls

VerifyClientCert ==
    \E policy \in Policies, roots \in RootStores, certs \in PresentedChains,
       sni \in SniHints, eng \in ClientEngines :
        LET out == verify_client_cert(policy, roots, certs, eng)
        IN  /\ op' = "verify_client_cert"
            /\ args' = [policy |-> policy, roots |-> roots,
                        presented_certs |-> certs, sni |-> sni]
            /\ result' = out.res
            /\ calls' = out.calls

OfferClientAuth ==
    \E policy \in Policies :
        LET out == Outcome(BoolVal(offer_client_auth(policy)), <<>>)
        IN  /\ op' = "offer_client_auth"
            /\ args' = [policy |-> policy]
            /\ result' = out.res
            /\ calls' = out.calls

ClientAuthMandatory ==
    \E policy \in Policies, sni \in SniHints :
        LET out == Outcome(Val(client_auth_mandatory(policy, sni)), <<>>)
        IN  /\ op' = "client_auth_mandatory"
            /\ args' = [policy |-> policy, sni |-> sni]
            /\ result' = out.res
            /\ calls' = out.calls

ClientAuthRootSubjects ==
    \E policy \in Policies, roots \in RootStores, sni \in SniHints :
        LET out == Outcome(client_auth_root_subjects(policy, roots, sni), <<>>)
        IN  /\ op' = "client_auth_root_subjects"
            /\ args' = [policy |-> policy, roots |-> roots, sni |-> sni]
            /\ result' = out.res
            /\ calls' = out.calls

\* A direct call of a marker type's public `assertion()`.
Assertion ==
    \E kind \in TokenKinds :
        LET out == Outcome(assertion(kind), <<>>)
        IN  /\ op' = "assertion"
            /\ args' = [kind |-> kind]
            /\ result' = out.res
            /\ calls' = out.calls

ConvertScheme ==
    \E scheme \in SignatureScheme :
        LET out == Outcome(convert_scheme(scheme), <<>>)
        IN  /\ op' = "convert_scheme"
            /\ args' = [scheme |-> scheme]
            /\ result' = out.res
            /\ calls' = out.calls

ConvertAlgTls13 ==
    \E scheme \in SignatureScheme :
        LET out == Outcome(convert_alg_tls13(scheme), <<>>)
        IN  /\ op' = "convert_alg_tls13"
            /\ args' = [scheme |-> scheme]
            /\ result' = out.res
            /\ calls' = out.calls

VerifySignedStruct ==
    \E message \in Messages, cert \in Certs,
       dss \in DigitallySignedStructs, answer \in SigAnswers :
        LET out == verify_signed_struct(message, cert, dss, answer)
        IN  /\ op' = "verify_signed_struct"
            /\ args' = [message |-> message, cert |-> cert, dss |-> dss]
            /\ result' = out.res
            /\ calls' = out.calls

VerifyTls13 ==
    \E cert \in Certs, dss \in DigitallySignedStructs,
       hash \in TranscriptHashes, context \in ByteStrings,
       answer \in SigAnswers :
        LET out == verify_tls13(cert, dss, hash, context, answer)
        IN  /\ op' = "verify_tls13"
            /\ args' = [cert |-> cert, dss |-> dss, handshake_hash |-> hash,
                        context_string_with_0 |-> context]
            /\ result' = out.res
            /\ calls' = out.calls

VerifyScts ==
    \E cert \in Certs, logs \in LogSets, clock \in SystemTimes :
        \E answers \in SctAnswerLists(logs) :
            LET out == verify_scts(cert, answers, logs, clock)
            IN  /\ op' = "verify_scts"
                /\ args' = [cert |-> cert, scts |-> Len(answers),
                            logs |-> logs, clock |-> clock]
                /\ result' = out.res
                /\ calls' = out.calls

Next ==
    \/ VerifyServerCert
    \/ VerifyClientCert
    \/ OfferClientAuth
    \/ ClientAuthMandatory
    \/ ClientAuthRootSubjects
    \/ Assertion
    \/ ConvertScheme
    \/ ConvertAlgTls13
    \/ VerifySignedStruct
    \/ VerifyTls13
    \/ VerifyScts

Spec == Init /\ [][Next]_vars

\* The chain verifiers and the client-auth policy queries.
NextCert ==
    \/ VerifyServerCert
    \/ VerifyClientCert
    \/ OfferClientAuth
    \/ ClientAuthMandatory
    \/ ClientAuthRootSubjects

SpecCert == Init /\ [][NextCert]_vars

\* The scheme gates and the two signature entry points.
NextSig ==
    \/ ConvertScheme
    \/ ConvertAlgTls13
    \/ VerifySignedStruct
    \/ VerifyTls13

SpecSig == Init /\ [][NextSig]_vars

\* SCT verification.
NextSct == VerifyScts

SpecSct == Init /\ [][NextSct]_vars

\* Every operation that returns a marker type.
NextTokens ==
    \/ VerifyServerCert
    \/ VerifyClientCert
    \/ VerifySignedStruct
    \/ VerifyTls13
    \/ Assertion

SpecTokens == Init /\ [][NextTokens]_vars

(* ------------------------- properties: chain verifiers ---------------- *)

\* The error a failed step of verify_server_cert is returned as.
StepError(c) ==
    IF c.fn = "time" THEN Err(c.out, <<>>) ELSE Err("WebPKIError", <<c.out>>)

ServerSteps ==
    <<"EndEntityCert::from", "time", "verify_is_valid_tls_server_cert",
      "verify_is_valid_for_dns_name">>

\* C1: verify_server_cert returns a ServerCertVerified token only when chain
\* preparation, the time source, chain validation and the DNS-name check all
\* succeeded, in that order; when chain validation succeeds and the name
\* check fails the result is a wrapped engine error and no token; a failed
\* earlier step is returned as that step's error and no later step is run.
C1_ServerCertAllSteps ==
    op = "verify_server_cert" =>
        /\ result.tag \in {"Ok", "Err"}
        /\ Len(calls) <= 4
        /\ \A i \in 1..Len(calls) : calls[i].fn = ServerSteps[i]
        /\ \A i \in 1..Len(calls) :
               calls[i].out # "Ok" =>
                   /\ i = Len(calls)
                   /\ result = StepError(calls[i])
        /\ args.presented_certs = <<>> =>
               result = Err("NoCertificatesPresented", <<>>)
        /\ result.tag = "Ok" =>
               /\ result.kind = "ServerCertVerified"
               /\ Len(calls) = 4
               /\ \A i \in 1..4 : calls[i].out = "Ok"
        /\ (Len(calls) = 4 /\ calls[3].out = "Ok" /\ calls[4].out # "Ok") =>
               /\ result.tag = "Err"
               /\ result.kind = "WebPKIError"
               /\ result.detail = <<calls[4].out>>
        /\ (Len(calls) = 4 /\ \A i \in 1..4 : calls[i].out = "Ok") =>
               result = Ok("ServerCertVerified")

\* C1 witness: chain validation succeeded, the name check failed, and the
\* call returned an error.
C1_Witness ==
    /\ op = "verify_server_cert"
    /\ Len(calls) = 4
    /\ calls[3].out = "Ok"
    /\ calls[4].out = "CertNotValidForName"
    /\ result.tag = "Err"

ChainVerifyCall ==
    \/ op = "verify_server_cert"
    \/ /\ op = "verify_client_cert"
       /\ args.policy \in {"AllowAnyAuthenticatedClient",
                           "AllowAnyAnonymousOrAuthenticatedClient"}

\* C8: with an empty presented chain, verify_server_cert and verify_client_cert
\* of AllowAnyAuthenticatedClient and AllowAnyAnonymousOrAuthenticatedClient
\* fail with NoCertificatesPresented whatever the trust store holds, without
\* consulting the time source or the engine, and return no token.
C8_EmptyChain ==
    (ChainVerifyCall /\ args.presented_certs = <<>>) =>
        /\ result = Err("NoCertificatesPresented", <<>>)
        /\ calls = <<>>

\* C8 witness: the anonymous-or-authenticated policy was asked to verify an
\* empty chain against a non-empty trust store.
C8_Witness ==
    /\ op = "verify_client_cert"
    /\ args.policy = "AllowAnyAnonymousOrAuthenticatedClient"
    /\ args.presented_certs = <<>>
    /\ args.roots # <<>>
    /\ result.kind = "NoCertificatesPresented"

\* C9: the built-in policies answer by the policy table for every hint:
\* AllowAnyAuthenticatedClient offers and is mandatory Some(true);
\* AllowAnyAnonymousOrAuthenticatedClient offers and is Some(false);
\* NoClientAuth does not offer, and its verify_client_cert and
\* client_auth_root_subjects fault; none answers None, and none answers
\* Some(true) while it does not offer client auth.
C9_PolicyTable ==
    /\ op = "offer_client_auth" =>
           result = Val(IF args.policy = "NoClientAuth" THEN "false"
                        ELSE "true")
    /\ op = "client_auth_mandatory" =>
           /\ args.policy = "AllowAnyAuthenticatedClient" =>
                  result = Val("Some(true)")
           /\ args.policy = "AllowAnyAnonymousOrAuthenticatedClient" =>
                  result = Val("Some(false)")
           /\ result.tag = "Val"
           /\ result.kind \in {"Some(true)", "Some(false)"}
           /\ result.kind = "Some(true)" => args.policy # "NoClientAuth"
    /\ (/\ op \in {"verify_client_cert", "client_auth_root_subjects"}
        /\ args.policy = "NoClientAuth") =>
           /\ result.tag = "Panic"
           /\ calls = <<>>
    /\ (/\ op = "client_auth_root_subjects"
        /\ args.policy # "NoClientAuth") =>
           /\ result.kind = "Some(subjects)"
           /\ result.detail = args.roots

\* C9 witness: the anonymous-or-authenticated policy was asked whether client
\* auth is mandatory, with a server-name hint present.
C9_Witness ==
    /\ op = "client_auth_mandatory"
    /\ args.policy = "AllowAnyAnonymousOrAuthenticatedClient"
    /\ args.sni = "example.com"
    /\ result.kind = "Some(false)"

(* --------------------------- properties: tokens ----------------------- *)

IsToken(r) == r.tag = "Ok" /\ r.kind \in TokenKinds

\* The verification functions of each kind in this file.
VerificationsOf(kind) ==
    CASE kind = "ServerCertVerified" -> {"verify_server_cert"}
      [] kind = "ClientCertVerified" -> {"verify_client_cert"}
      [] kind = "HandshakeSignatureValid" ->
           {"verify_signed_struct", "verify_tls13"}
      [] kind = "FinishedMessageVerified" -> {}

\* C2 as stated: a token of kind K exists only if a verification of kind K
\* has returned success; there is no public constructor.
C2_Original ==
    IsToken(result) => op \in VerificationsOf(result.kind)

\* C2 as amended: a token of kind K is built only by K's assertion(); this
\* file calls it only where K's verification function has had every
\* collaborator it asked answer success, the last of them the deciding
\* check; any other token comes from a direct call of the public assertion().
C2_TokenOrigin ==
    IsToken(result) =>
        \/ op = "assertion" /\ args.kind = result.kind
        \/ /\ op \in VerificationsOf(result.kind)
           /\ calls # <<>>
           /\ \A i \in 1..Len(calls) : calls[i].out = "Ok"
           /\ calls[Len(calls)].fn =
                  (CASE op = "verify_server_cert" ->
                          "verify_is_valid_for_dns_name"
                     [] op = "verify_client_cert" ->
                          "verify_is_valid_tls_client_cert"
                     [] OTHER -> "verify_certificate_signature")

\* C2 witness: a ClientCertVerified token returned by verify_client_cert.
C2_Witness ==
    /\ op = "verify_client_cert"
    /\ result = Ok("ClientCertVerified")

(* ------------------------ properties: scheme gates -------------------- *)

Range(f) == {f[i] : i \in DOMAIN f}

Accepts12(s) == convert_scheme(s).tag = "Ok"
Accepts13(s) == convert_alg_tls13(s).tag = "Ok"

\* Both gates answer Ok(()) or a PeerMisbehavedError naming the scheme, for
\* every scheme; the 1.2 gate accepts exactly the advertised schemes; the 1.3
\* gate rejects everything outside ECDSA and RSA-PSS; what the 1.3 gate
\* accepts the 1.2 gate accepts.
GatesTotal ==
    /\ op = "convert_scheme" =>
           /\ args.scheme \in Range(supported_verify_schemes) =>
                  result = Ok("Unit")
           /\ args.scheme \notin Range(supported_verify_schemes) =>
                  /\ result.tag = "Err"
                  /\ result.kind = "PeerMisbehavedError"
                  /\ result.detail[Len(result.detail)] = args.scheme
    /\ op = "convert_alg_tls13" =>
           /\ result.tag \in {"Ok", "Err"}
           /\ result.tag = "Err" =>
                  /\ result.kind = "PeerMisbehavedError"
                  /\ result.detail[Len(result.detail)] = args.scheme
           /\ args.scheme \notin EcdsaSchemes \cup RsaPssSchemes =>
                  result.tag = "Err"
           /\ result.tag = "Ok" => Accepts12(args.scheme)
           /\ args.scheme \in RsaPkcs1Schemes => result.tag = "Err"

\* C6 as stated: the gates are total, the 1.2 gate accepts exactly its
\* allow-list, the 1.3 gate rejects everything outside ECDSA and RSA-PSS, what
\* the 1.3 gate accepts the 1.2 gate accepts, and every RSA-PKCS1 scheme is
\* accepted by the 1.2 gate and rejected by the 1.3 gate.
C6_Original ==
    /\ GatesTotal
    /\ (op = "convert_scheme" /\ args.scheme \in RsaPkcs1Schemes) =>
           result.tag = "Ok"

\* C6 as amended: as stated, except that of the RSA-PKCS1 schemes the 1.2
\* gate accepts those with SHA-256, SHA-384 and SHA-512 and rejects
\* RSA_PKCS1_SHA1, which both gates reject.
C6_Gates ==
    /\ GatesTotal
    /\ (op = "convert_scheme" /\ args.scheme \in RsaPkcs1Schemes) =>
           (result.tag = "Ok" <=> args.scheme # "RSA_PKCS1_SHA1")

\* C6 witness: the 1.2 gate was asked about RSA_PKCS1_SHA1 and rejected it.
C6_Witness ==
    /\ op = "convert_scheme"
    /\ args.scheme = "RSA_PKCS1_SHA1"
    /\ result.kind = "PeerMisbehavedError"

(* ---------------------- properties: signature entry points ------------ *)

\* C7: the message verify_tls13 hands the signature engine is 64 bytes of
\* 0x20, then the context string, then the transcript hash, and nothing
\* else; the engine is called in TLS 1.3 mode with the signed struct's scheme
\* and signature bytes.
C7_Tls13Message ==
    (op = "verify_tls13" /\ calls # <<>>) =>
        LET c == calls[1].in
            ctx == args.context_string_with_0
            hash == args.handshake_hash
        IN  /\ Len(calls) = 1
            /\ calls[1].fn = "verify_certificate_signature"
            /\ c.tls13 = TRUE
            /\ c.scheme = args.dss.scheme
            /\ c.sig = args.dss.sig
            /\ c.cert = args.cert
            /\ Len(c.msg) = 64 + Len(ctx) + Len(hash)
            /\ \A i \in 1..64 : c.msg[i] = 32
            /\ \A i \in 1..Len(ctx) : c.msg[64 + i] = ctx[i]
            /\ \A i \in 1..Len(hash) : c.msg[64 + Len(ctx) + i] = hash[i]

\* C7 witness: the engine was called with a message built from a non-empty
\* context string and a different, non-empty transcript hash.
C7_Witness ==
    /\ op = "verify_tls13"
    /\ Len(calls) = 1
    /\ args.context_string_with_0 = <<0>>
    /\ args.handshake_hash = <<32, 0>>

\* C10: both signature entry points ask their scheme gate before the engine:
\* a token is returned only if the gate accepted the scheme and the engine
\* then answered valid; when the gate rejects, the gate's PeerMisbehavedError
\* is returned and the engine is not called; when the engine fails, a wrapped
\* engine error is returned and no token.
C10_GateBeforeEngine ==
    op \in {"verify_signed_struct", "verify_tls13"} =>
        LET accepted == IF op = "verify_tls13"
                        THEN Accepts13(args.dss.scheme)
                        ELSE Accepts12(args.dss.scheme)
            gate == IF op = "verify_tls13"
                    THEN convert_alg_tls13(args.dss.scheme)
                    ELSE convert_scheme(args.dss.scheme)
        IN  /\ ~accepted =>
                /\ result = gate
                /\ result.kind = "PeerMisbehavedError"
                /\ calls = <<>>
            /\ accepted =>
                /\ Len(calls) = 1
                /\ calls[1].fn = "verify_certificate_signature"
                /\ calls[1].in.tls13 = (op = "verify_tls13")
                /\ calls[1].out # "Ok" =>
                       result = Err("WebPKIError", <<calls[1].out>>)
                /\ calls[1].out = "Ok" =>
                       result = Ok("HandshakeSignatureValid")
            /\ result.tag = "Ok" =>
                /\ result.kind = "HandshakeSignatureValid"
                /\ accepted
                /\ calls[1].out = "Ok"

\* C10 witness: verify_tls13 was given an RSA-PKCS1 scheme and returned the
\* gate's error without calling the engine.
C10_Witness ==
    /\ op = "verify_tls13"
    /\ args.dss.scheme = "RSA_PKCS1_SHA256"
    /\ result.kind = "PeerMisbehavedError"
    /\ calls = <<>>

(* -------------------------- properties: SCTs -------------------------- *)

ClockReadable(clock) == clock = "ordinary"

FatalCall(c) == ~c.out.ok /\ should_be_fatal(c.out.err)
NonFatalCall(c) == ~c.out.ok /\ ~should_be_fatal(c.out.err)
ValidCalls == {i \in 1..Len(calls) : calls[i].out.ok}

\* C3 as stated: with an empty trusted-log set or an empty SCT list the result
\* is Ok(()) and the engine is not called, whatever the clock reads.
C3_Original ==
    (op = "verify_scts" /\ (args.logs = <<>> \/ args.scts = 0)) =>
        /\ result = Ok("Unit")
        /\ calls = <<>>

\* C3 as amended: with an empty SCT list the engine is not called, and the
\* result is Ok(()) when the clock can be read; when it cannot, the result is
\* FailedToGetCurrentTime whatever the lists hold.  With an empty trusted-log
\* set, a non-empty list and a readable clock the engine is still asked about
\* the records in order, and the result is Ok(()) unless one of them fails
\* fatally.
C3_TrivialSuccess ==
    op = "verify_scts" =>
        /\ ~ClockReadable(args.clock) =>
               /\ result = Err("FailedToGetCurrentTime", <<>>)
               /\ calls = <<>>
        /\ (args.scts = 0 /\ ClockReadable(args.clock)) =>
               /\ result = Ok("Unit")
               /\ calls = <<>>
        /\ (args.logs = <<>> /\ args.scts > 0 /\ ClockReadable(args.clock)) =>
               /\ calls # <<>>
               /\ result = Ok("Unit") <=>
                      (\A i \in 1..Len(calls) : ~FatalCall(calls[i]))
               /\ result = Ok("Unit") => Len(calls) = args.scts

\* C3 witness: an empty log set, three records none of which failed fatally:
\* the engine was asked about each and the call succeeded.
C3_Witness ==
    /\ op = "verify_scts"
    /\ args.logs = <<>>
    /\ args.scts = 3
    /\ Len(calls) = 3
    /\ result = Ok("Unit")

\* C4: records are evaluated in list order, and the first record whose engine
\* failure is fatal ends the call with InvalidSCT carrying that error: no
\* later record reaches the engine, and earlier valid records do not make the
\* call succeed.
C4_FatalShortCircuit ==
    op = "verify_scts" =>
        /\ Len(calls) <= args.scts
        /\ \A i \in 1..Len(calls) :
               /\ calls[i].fn = "sct::verify_sct"
               /\ calls[i].in[2] = i
               /\ calls[i].in[4] = args.logs
        /\ \A i \in 1..Len(calls) :
               FatalCall(calls[i]) =>
                   /\ i = Len(calls)
                   /\ result = Err("InvalidSCT", <<calls[i].out.err>>)

\* C4 witness: of three records the first validated, the second failed
\* fatally, and the third was never passed to the engine.
C4_Witness ==
    /\ op = "verify_scts"
    /\ args.scts = 3
    /\ Len(calls) = 2
    /\ calls[1].out.ok
    /\ FatalCall(calls[2])
    /\ result.kind = "InvalidSCT"

NoFatalCall == \A i \in 1..Len(calls) : ~FatalCall(calls[i])

ThresholdFails ==
    args.logs # <<>> /\ args.scts # 0 /\ ValidCalls = {}

\* What C5 says of a call in which no record failed fatally.
ThresholdRule ==
    /\ result.tag \in {"Ok", "Err"}
    /\ result.tag = "Err" <=> ThresholdFails
    /\ result.tag = "Ok" => result = Ok("Unit")
    /\ result.tag = "Err" =>
           /\ NonFatalCall(calls[Len(calls)])
           /\ result = Err("InvalidSCT", <<calls[Len(calls)].out.err>>)
    /\ ValidCalls # {} => result = Ok("Unit")

\* C5 as stated: when no record fails fatally, verify_scts fails exactly when
\* the log set and the list are non-empty and no record validated, with the
\* last non-fatal error, which always exists.
C5_Original ==
    (op = "verify_scts" /\ NoFatalCall) => ThresholdRule

\* C5 as amended: the same, when the clock can be read.
C5_Threshold ==
    (op = "verify_scts" /\ NoFatalCall /\ ClockReadable(args.clock)) =>
        /\ Len(calls) = args.scts
        /\ ThresholdRule

\* C5 witness: one valid record between two that failed non-fatally, against
\* a non-empty log set: the call succeeded.
C5_Witness ==
    /\ op = "verify_scts"
    /\ args.logs # <<>>
    /\ Len(calls) = 3
    /\ NonFatalCall(calls[1])
    /\ calls[2].out.ok
    /\ NonFatalCall(calls[3])
    /\ result = Ok("Unit")

\* A call that failed the threshold: two records, both failed non-fatally
\* with different errors, and the second one's error was returned.
C5_FailureReached ==
    /\ op = "verify_scts"
    /\ Len(calls) = 2
    /\ calls[1].out.err = "UnknownLog"
    /\ result = Err("InvalidSCT", <<"UnsupportedSCTVersion">>)

====
